---- MODULE Spec2Model ----
(***************************************************************************)
(* A model of yezu.py, the front end of a small stack language: the        *)
(* position-tracking Scanner, tokenize and the Lexer, the recursive-       *)
(* descent Parser, the builtin signature table with the Checker, and the   *)
(* driver main.  A Python str is a sequence of one-character strings, a    *)
(* Python list or tuple is a sequence, and indices are 0-based as in the   *)
(* source (string[i] is written At(string, i)).                            *)
(***************************************************************************)
EXTENDS Integers, Sequences, FiniteSets, TLC

VARIABLES
    string,     \* Scanner.string: the text readfile returned
    index,      \* Scanner.index
    line,       \* Scanner.line
    row,        \* Scanner.row
    scanned,    \* history: what each next(scanner) returned, with its start offset
    listed,     \* the tokens Lexer.__next__ has returned so far (Lexer.list's list)
    exhausted,  \* how many times next(scanner) raised StopIteration
    tokens,     \* Parser.tokens: what the token iterator has left
    current,    \* Parser.current
    prog,       \* the Program that Parser.program is filling
    stderr,     \* the message report printed before exit(), or None
    tokenized,  \* what a call of tokenize ended with, or None
    functions,  \* Checker.functions, or None
    given,      \* history: how the input was drawn
    pc          \* which harness or step of main is running

vars == <<string, index, line, row, scanned, listed, exhausted,
          tokens, current, prog, stderr, tokenized, functions, given, pc>>

(***************************************************************************)
(* Bounds of the model.                                                    *)
(***************************************************************************)
MaxLen == 4        \* longest source text drawn over Alphabet
MaxStops == 2      \* requests made of an exhausted Scanner

(***************************************************************************)
(* Characters.                                                             *)
(***************************************************************************)
Whitespace == {" ", "\n"}
Quotes == {"\"", "'"}
Digits == {"0", "1", "2", "3", "4", "5", "6", "7", "8", "9"}
Alphabet == {"\n", " ", ";", "\"", "'", "1", "a"}

None == [none |-> TRUE]

Min(a, b) == IF a < b THEN a ELSE b

\* string[i], 0-based
At(s, i) == s[i + 1]

\* string[a:b], 0-based, clamped to the string as Python slices are
Slice(s, a, b) == SubSeq(s, a + 1, Min(b, Len(s)))

AllStrings(chars, n) == UNION {[1..k -> chars] : k \in 0..n}

(***************************************************************************)
(* Position and Scanner.  A scanner value sc is the record of the fields   *)
(* index, line and row; the string never changes.                          *)
(***************************************************************************)
Position(l, r) == [line |-> l, row |-> r]

isspace(c) == c \in Whitespace

position(sc) == Position(sc.line, sc.row)

\* Scanner.increment, with the row reset taken when the cursor ARRIVES at a newline
increment(s, sc) ==
    LET i == sc.index + 1 IN
    IF i < Len(s)
    THEN IF At(s, i) = "\n"
         THEN [index |-> i, line |-> sc.line + 1, row |-> -1]
         ELSE [index |-> i, line |-> sc.line, row |-> sc.row + 1]
    ELSE [index |-> i, line |-> sc.line, row |-> sc.row]

\* a faulty pair of predicates: the whitespace skipped in front of a lexeme takes a ;
\* with it
cond_holds_comment(cond, c) ==
    IF cond = "str.isspace"
    THEN isspace(c) \/ c = ";"
    ELSE ~isspace(c) /\ c \notin ({";"} \cup Quotes)

\* the two predicates Scanner.skip is called with
cond_holds(cond, c) ==
    IF cond = "str.isspace"
    THEN isspace(c)
    ELSE ~isspace(c) /\ c \notin ({";"} \cup Quotes)

\* a faulty skip: an if in place of the while, one character skipped at most
skip_once(s, sc, cond) ==
    IF sc.index < Len(s) /\ cond_holds(cond, At(s, sc.index))
    THEN increment(s, sc)
    ELSE sc

RECURSIVE skip(_, _, _)
skip(s, sc, cond) ==
    IF sc.index < Len(s) /\ cond_holds(cond, At(s, sc.index))
    THEN skip(s, increment(s, sc), cond)
    ELSE sc

\* a faulty until: a quote is taken to be closed by either quote character
RECURSIVE until_either(_, _, _)
until_either(s, sc, stop) ==
    IF sc.index < Len(s) /\ At(s, sc.index) # stop
                         /\ ~(stop \in Quotes /\ At(s, sc.index) \in Quotes)
    THEN until_either(s, increment(s, sc), stop)
    ELSE sc

\* a faulty until: a quoted span is taken to end at whitespace as well
RECURSIVE until_word(_, _, _)
until_word(s, sc, stop) ==
    IF sc.index < Len(s) /\ At(s, sc.index) # stop
                         /\ ~(stop \in Quotes /\ isspace(At(s, sc.index)))
    THEN until_word(s, increment(s, sc), stop)
    ELSE sc

RECURSIVE until(_, _, _)
until(s, sc, stop) ==
    IF sc.index < Len(s) /\ At(s, sc.index) # stop
    THEN until(s, increment(s, sc), stop)
    ELSE sc

\* the while loop of Scanner.__next__ (lines 72-80)
RECURSIVE quoted(_, _)
quoted(s, sc) ==
    IF sc.index < Len(s) /\ ~isspace(At(s, sc.index))
    THEN IF At(s, sc.index) \in Quotes
         THEN LET stop == At(s, sc.index)
                  closed == increment(s, until(s, increment(s, sc), stop))
              IN quoted(s, skip(s, closed, "lambda"))
         ELSE sc
    ELSE sc

\* Scanner.__next__: the scanner it leaves and either StopIteration or (pos, lexeme)
Scanner__next__(s, sc) ==
    LET at == skip(s, sc, "str.isspace") IN
    IF at.index >= Len(s)
    THEN [StopIteration |-> TRUE, sc |-> at, pos |-> position(at),
          start |-> at.index, lexeme |-> <<>>]
    ELSE IF At(s, at.index) = ";"
    THEN LET end == until(s, at, "\n") IN
         [StopIteration |-> FALSE, sc |-> end, pos |-> position(at),
          start |-> at.index, lexeme |-> Slice(s, at.index, end.index)]
    ELSE LET end == quoted(s, skip(s, at, "lambda")) IN
         [StopIteration |-> FALSE, sc |-> end, pos |-> position(at),
          start |-> at.index, lexeme |-> Slice(s, at.index, end.index)]

(***************************************************************************)
(* Kinds, tokens and tokenize.  A token's value is tagged with its Python  *)
(* type: [int |-> n], [float |-> d], [bool |-> b], [str |-> s] or None.    *)
(* A float is the exact decimal it was read from, normalised (num /        *)
(* 10^scale with no trailing zero in the fraction), which is float(string) *)
(* for the literals of up to 15 significant digits the model draws.        *)
(***************************************************************************)
Kind == {"ILLEGAL", "COMMENT", "WORD", "INTEGER", "FLOAT", "BOOLEAN", "STRING",
         "CHARACTER", "FUN", "END", "IF", "THEN", "ELIF", "ELSE", "WHILE", "DO"}

STRING_TO_KIND ==
    (<<"f", "u", "n">> :> "FUN") @@ (<<"e", "n", "d">> :> "END") @@
    (<<"i", "f">> :> "IF") @@ (<<"t", "h", "e", "n">> :> "THEN") @@
    (<<"e", "l", "i", "f">> :> "ELIF") @@ (<<"e", "l", "s", "e">> :> "ELSE") @@
    (<<"w", "h", "i", "l", "e">> :> "WHILE") @@ (<<"d", "o">> :> "DO")

Token(pos, kind, value) == [class |-> "Token", pos |-> pos, kind |-> kind, value |-> value]

\* re.match of a pattern anchored by ^ and $ tries the pattern on the texts that end
\* where $ matches: at the end of the string, or before a final newline
Anchored(s) ==
    {s} \cup (IF Len(s) > 0 /\ s[Len(s)] = "\n" THEN {SubSeq(s, 1, Len(s) - 1)} ELSE {})

AllDigits(s) == Len(s) >= 1 /\ \A i \in 1..Len(s) : s[i] \in Digits

Unsigned(s) == IF Len(s) > 0 /\ s[1] = "-" THEN Tail(s) ELSE s

\* -?\d+
REGEX_INTEGER(s) == AllDigits(Unsigned(s))

\* -?\d+\.\d+
REGEX_FLOAT(s) ==
    LET u == Unsigned(s) IN
    \E k \in 1..Len(u) :
        /\ u[k] = "."
        /\ AllDigits(SubSeq(u, 1, k - 1))
        /\ AllDigits(SubSeq(u, k + 1, Len(u)))

\* \"[^\"]*\"
REGEX_STRING(s) ==
    /\ Len(s) >= 2
    /\ s[1] = "\"" /\ s[Len(s)] = "\""
    /\ \A i \in 2..(Len(s) - 1) : s[i] # "\""

\* \'[^\']\'
REGEX_CHARACTER(s) == Len(s) = 3 /\ s[1] = "'" /\ s[3] = "'" /\ s[2] # "'"

\* [^\"\']+
REGEX_WORD(s) == Len(s) >= 1 /\ \A i \in 1..Len(s) : s[i] \notin Quotes

DigitValue(c) ==
    CASE c = "0" -> 0 [] c = "1" -> 1 [] c = "2" -> 2 [] c = "3" -> 3 [] c = "4" -> 4
      [] c = "5" -> 5 [] c = "6" -> 6 [] c = "7" -> 7 [] c = "8" -> 8 [] c = "9" -> 9

RECURSIVE Decimal(_)
Decimal(digits) ==
    IF digits = <<>> THEN 0
    ELSE 10 * Decimal(SubSeq(digits, 1, Len(digits) - 1)) + DigitValue(digits[Len(digits)])

\* the text int() and float() read: surrounding whitespace is ignored
RECURSIVE rstrip(_)
rstrip(s) == IF Len(s) > 0 /\ isspace(s[Len(s)]) THEN rstrip(SubSeq(s, 1, Len(s) - 1)) ELSE s

Signed(s, n) == IF s[1] = "-" THEN 0 - n ELSE n

\* sys.get_int_max_str_digits(): the longest digit string int() converts
MAX_STR_DIGITS == 4300

\* int(string, base=10), or the ValueError it raises on more digits than that
int(s) ==
    IF Len(Unsigned(rstrip(s))) > MAX_STR_DIGITS
    THEN [class |-> "ValueError", digits |-> Len(Unsigned(rstrip(s)))]
    ELSE [class |-> "int", int |-> Signed(s, Decimal(Unsigned(rstrip(s))))]

RECURSIVE Normal(_, _)
Normal(num, scale) ==
    IF scale > 0 /\ num % 10 = 0 THEN Normal(num \div 10, scale - 1)
    ELSE [num |-> num, scale |-> scale]

\* string[1:], a slice that keeps the closing quote
OpenSlice(s) == Slice(s, 1, Len(s))

\* string[1:-1]
Inner(s) == Slice(s, 1, Len(s) - 1)

\* float(string)
float(s) ==
    LET u == Unsigned(rstrip(s))
        k == CHOOSE k \in 1..Len(u) : u[k] = "."
        n == Normal(Decimal(SubSeq(u, 1, k - 1) \o SubSeq(u, k + 1, Len(u))), Len(u) - k)
    IN [num |-> Signed(s, n.num), scale |-> n.scale]

\* a Token, or the exception that leaves tokenize
tokenize(pos, s) ==
    IF (\E x \in Anchored(s) : REGEX_INTEGER(x))
    THEN IF int(s).class = "ValueError" THEN int(s)
         ELSE Token(pos, "INTEGER", [int |-> int(s).int])
    ELSE IF (\E x \in Anchored(s) : REGEX_FLOAT(x)) THEN Token(pos, "FLOAT", [float |-> float(s)])
    ELSE IF s \in {<<"t", "r", "u", "e">>, <<"f", "a", "l", "s", "e">>}
    THEN Token(pos, "BOOLEAN", [bool |-> s = <<"t", "r", "u", "e">>])
    ELSE IF (\E x \in Anchored(s) : REGEX_STRING(x)) THEN Token(pos, "STRING", [str |-> Inner(s)])
    ELSE IF (\E x \in Anchored(s) : REGEX_CHARACTER(x))
    THEN Token(pos, "CHARACTER", [str |-> Inner(s)])
    ELSE IF s \in DOMAIN STRING_TO_KIND THEN Token(pos, STRING_TO_KIND[s], None)
    ELSE IF Len(s) > 0 /\ s[1] = ";" THEN Token(pos, "COMMENT", [str |-> Slice(s, 1, Len(s))])
    ELSE IF (\E x \in Anchored(s) : REGEX_WORD(x)) THEN Token(pos, "WORD", [str |-> s])
    ELSE Token(pos, "ILLEGAL", [str |-> s])

(***************************************************************************)
(* The Lexer over a Scanner: one request, Lexer.__next__.                  *)
(***************************************************************************)
scanner == [index |-> index, line |-> line, row |-> row]

\* Lexer.__next__ returning a token: tokenize(*next(self.scanner))
LexerReturn(r) ==
    /\ ~r.StopIteration
    /\ tokenize(r.pos, r.lexeme).class = "Token"
    /\ index' = r.sc.index /\ line' = r.sc.line /\ row' = r.sc.row
    /\ scanned' = Append(scanned, [pos |-> r.pos, start |-> r.start, lexeme |-> r.lexeme])
    /\ listed' = Append(listed, tokenize(r.pos, r.lexeme))

\* an exception of tokenize leaves Lexer.__next__ and its callers: the traceback is
\* printed and the run is over
Traceback(exception) == [traceback |-> exception.class]

LexerError(r) ==
    /\ ~r.StopIteration
    /\ tokenize(r.pos, r.lexeme).class # "Token"
    /\ index' = r.sc.index /\ line' = r.sc.line /\ row' = r.sc.row
    /\ scanned' = Append(scanned, [pos |-> r.pos, start |-> r.start, lexeme |-> r.lexeme])
    /\ stderr' = Traceback(tokenize(r.pos, r.lexeme))
    /\ pc' = "raised"
    /\ UNCHANGED listed

\* Lexer.__next__ passing on the Scanner's StopIteration
LexerRaise(r) ==
    /\ r.StopIteration
    /\ index' = r.sc.index /\ line' = r.sc.line /\ row' = r.sc.row
    /\ UNCHANGED <<scanned, listed>>

\* the texts of the documented examples: "a\nbb" and "; note\ncode"
Samples ==
    { <<"a", "\n", "b", "b">>,
      <<";", " ", "n", "o", "t", "e", "\n", "c", "o", "d", "e">> }

\* longer texts with quoted spans, closed and left open
Quotations ==
    { <<"a", "\"", "b", " ", "'", "\n", "\"", "c", " ", "d">>,
      <<"'", "\"", " ", "'", "\"", "a", "'", "\"", "\n", "1">>,
      <<"1", " ", "a", "'", "b", " ", "\"", " ", "c", "\n">>,
      <<"\"", "a", "\"", ";", "b", " ", "c", ";", "'", " ", "'">> }

Sources == AllStrings(Alphabet, MaxLen) \cup Samples \cup Quotations

\* a Scanner just constructed on a text
ScannerInit ==
    /\ index = 0 /\ line = 1 /\ row = 0
    /\ scanned = <<>> /\ listed = <<>> /\ exhausted = 0

\* no Parser constructed yet
NoParser ==
    /\ tokens = <<>> /\ current = None
    /\ prog = [functions |-> <<>>, body |-> <<>>]
    /\ stderr = None
    /\ tokenized = None /\ functions = None

InitLexer ==
    /\ string \in Sources
    /\ ScannerInit
    /\ NoParser
    /\ given = [form |-> "text"]
    /\ pc = "lexer"

\* a caller iterating the Lexer, asking again after exhaustion up to MaxStops times
Lexer__next__ ==
    /\ pc = "lexer"
    /\ LET r == Scanner__next__(string, scanner) IN
       \/ LexerReturn(r) /\ UNCHANGED <<exhausted, stderr, pc>>
       \/ /\ LexerRaise(r) /\ exhausted < MaxStops /\ exhausted' = exhausted + 1
          /\ UNCHANGED <<stderr, pc>>
       \/ LexerError(r) /\ UNCHANGED exhausted
    /\ UNCHANGED <<string, tokens, current, prog, tokenized, functions, given>>

NextLexer == Lexer__next__

SpecLexer == InitLexer /\ [][NextLexer]_vars

(***************************************************************************)
(* C1.  Position of a lexeme.                                              *)
(***************************************************************************)
Newlines(s, n) == Cardinality({i \in 0..(n - 1) : At(s, i) = "\n"})

LineStart(s, n) ==
    LET nls == {i \in 0..(n - 1) : At(s, i) = "\n"} IN
    IF nls = {} THEN 0 ELSE 1 + CHOOSE i \in nls : \A j \in nls : j <= i

\* the Position of the character at offset n of s
TruePosition(s, n) == Position(1 + Newlines(s, n), n - LineStart(s, n))

\* C1: every lexeme the Scanner returns is reported at the Position of its first
\* character: line = 1 + the newlines before it, column = its 0-based offset in its line
C1_PositionOfFirstCharacter ==
    \A k \in 1..Len(scanned) : scanned[k].pos = TruePosition(string, scanned[k].start)

(***************************************************************************)
(* C6.  Line comments.                                                     *)
(***************************************************************************)
\* the offset of the first newline at or after offset n, or the end of the text
LineEnd(s, n) ==
    LET nls == {i \in n..(Len(s) - 1) : At(s, i) = "\n"} IN
    IF nls = {} THEN Len(s) ELSE CHOOSE i \in nls : \A j \in nls : i <= j

\* the k-th lexeme returned runs from its ; to the end of its line, becomes one
\* COMMENT token holding the text after the ;, and the next lexeme returned is the
\* first one after that newline
CommentLexeme(k) ==
    LET e == scanned[k]
        end == LineEnd(string, e.start)
    IN /\ e.lexeme = Slice(string, e.start, end)
       /\ listed[k].kind = "COMMENT"
       /\ listed[k].value = [str |-> Slice(string, e.start + 1, end)]
       /\ listed[k].pos = e.pos
       /\ k < Len(scanned) =>
             /\ scanned[k + 1].start > end
             /\ \A i \in end..(scanned[k + 1].start - 1) : isspace(At(string, i))

\* C6: a lexeme whose first character is ; is the rest of its line, reported at the
\* Position of the ;, tokenized as one COMMENT token, and followed by the first lexeme
\* after the newline
C6_LineComment ==
    \A k \in 1..Len(scanned) :
        At(string, scanned[k].start) = ";" =>
            /\ CommentLexeme(k)
            /\ scanned[k].pos = TruePosition(string, scanned[k].start)

\* what C6 says apart from the Position, which holds of every text
C6_ExceptPosition ==
    \A k \in 1..Len(scanned) : At(string, scanned[k].start) = ";" => CommentLexeme(k)

(***************************************************************************)
(* Parser.  A parser value p is the record of Parser.tokens (what the      *)
(* iterator has left) and Parser.current.  Every parsing method returns    *)
(* Result(p, value, exit): the parser it leaves, what it returns, and the  *)
(* message report printed before exit() ended the process (None when it    *)
(* returned normally).  Nodes carry their class.                           *)
(***************************************************************************)
VALUE_KINDS == {"INTEGER", "FLOAT", "BOOLEAN", "STRING", "CHARACTER"}

Function(pos, name, body) == [class |-> "Function", pos |-> pos, name |-> name, body |-> body]

If(pos, cases) == [class |-> "If", pos |-> pos, cases |-> cases]

While(pos, cond, body) == [class |-> "While", pos |-> pos, cond |-> cond, body |-> body]

Result(p, value, exit) == [p |-> p, value |-> value, exit |-> exit]

\* the condition of an else case, (None, body): TLC cannot compare a record with a
\* sequence, so the absent condition is written as the list holding None, which no
\* list of instructions equals
NoCond == <<None>>

\* t in kinds, for a tuple of kinds
InKinds(kind, kinds) == \E i \in 1..Len(kinds) : kinds[i] = kind

next_token(p) ==
    IF p.tokens = <<>>
    THEN [tokens |-> <<>>, current |-> None]
    ELSE [tokens |-> Tail(p.tokens), current |-> Head(p.tokens)]

\* Parser.__init__
Parser(iterable) == next_token([tokens |-> iterable, current |-> None])

current_and_update(p) == Result(next_token(p), p.current, None)

match(p, kinds) == p.current # None /\ InKinds(p.current.kind, kinds)

expect(p, kinds) ==
    IF p.current = None
    THEN Result(p, None, [report |-> "expected", kinds |-> kinds, found |-> "nothing",
                          at |-> None])
    ELSE IF ~InKinds(p.current.kind, kinds)
    THEN Result(p, None, [report |-> "expected", kinds |-> kinds,
                          found |-> p.current.kind, at |-> p.current.pos])
    ELSE current_and_update(p)

\* a call followed by the rest of the method: report's exit() ends the method at once
Then(r, rest(_)) == IF r.exit # None THEN r ELSE rest(r)

\* the stop kinds parse_if collects an elif branch up to (line 317)
ElifBranchStops == <<"ELIF", "ELSE">>

RECURSIVE collect(_, _), parse_atom(_), parse_if(_), parse_while(_), elif_arms(_, _)

\* a faulty parse_atom: a token of any other kind is taken as a leaf
parse_atom_lenient(p) ==
    IF p.current.kind = "IF" THEN parse_if(p)
    ELSE IF p.current.kind = "WHILE" THEN parse_while(p)
    ELSE current_and_update(p)

collect(p, stops) ==
    IF p.current # None /\ ~InKinds(p.current.kind, stops)
    THEN Then(parse_atom(p), LAMBDA atom :
         Then(collect(atom.p, stops), LAMBDA rest :
         Result(rest.p, <<atom.value>> \o rest.value, None)))
    ELSE Result(p, <<>>, None)

parse_atom(p) ==
    IF p.current.kind \in VALUE_KINDS THEN current_and_update(p)
    ELSE IF p.current.kind = "WORD" THEN current_and_update(p)
    ELSE IF p.current.kind = "IF" THEN parse_if(p)
    ELSE IF p.current.kind = "WHILE" THEN parse_while(p)
    ELSE Result(p, None, [report |-> "unexpected", kind |-> p.current.kind,
                          at |-> p.current.pos])

\* the while loop of parse_if (lines 313-318); its value is the list of cases
elif_arms(p, cases) ==
    IF match(p, <<"ELIF">>)
    THEN Then(expect(p, <<"ELIF">>), LAMBDA elif :
         Then(collect(elif.p, <<"THEN">>), LAMBDA cond :
         Then(expect(cond.p, <<"THEN">>), LAMBDA then :
         Then(collect(then.p, ElifBranchStops), LAMBDA body :
         elif_arms(body.p, Append(cases, <<cond.value, body.value>>))))))
    ELSE Result(p, cases, None)

\* the else arm of parse_if (lines 319-322); its value is the list of cases
else_arm(p, cases) ==
    IF match(p, <<"ELSE">>)
    THEN Then(expect(p, <<"ELSE">>), LAMBDA else :
         Then(collect(else.p, <<"END">>), LAMBDA body :
         Result(body.p, Append(cases, <<NoCond, body.value>>), None)))
    ELSE Result(p, cases, None)

parse_if(p) ==
    Then(expect(p, <<"IF">>), LAMBDA if :
    Then(collect(if.p, <<"THEN">>), LAMBDA cond :
    Then(expect(cond.p, <<"THEN">>), LAMBDA then :
    Then(collect(then.p, <<"ELIF", "ELSE", "END">>), LAMBDA body :
    Then(elif_arms(body.p, << <<cond.value, body.value>> >>), LAMBDA arms :
    Then(else_arm(arms.p, arms.value), LAMBDA cases :
    Then(expect(cases.p, <<"END">>), LAMBDA end :
    Result(end.p, If(if.value.pos, cases.value), None))))))))

parse_while(p) ==
    Then(expect(p, <<"WHILE">>), LAMBDA while :
    Then(collect(while.p, <<"DO">>), LAMBDA cond :
    Then(expect(cond.p, <<"DO">>), LAMBDA do :
    Then(collect(do.p, <<"END">>), LAMBDA body :
    Then(expect(body.p, <<"END">>), LAMBDA end :
    Result(end.p, While(while.value.pos, cond.value, body.value), None))))))

\* a faulty parse_function: the name is taken from the FUN token
parse_function_unnamed(p) ==
    Then(expect(p, <<"FUN">>), LAMBDA fun :
    Then(expect(fun.p, <<"WORD">>), LAMBDA name :
    Then(collect(name.p, <<"END">>), LAMBDA body :
    Then(expect(body.p, <<"END">>), LAMBDA end :
    Result(end.p, Function(fun.value.pos, fun.value.value, body.value), None)))))

parse_function(p) ==
    Then(expect(p, <<"FUN">>), LAMBDA fun :
    Then(expect(fun.p, <<"WORD">>), LAMBDA name :
    Then(collect(name.p, <<"END">>), LAMBDA body :
    Then(expect(body.p, <<"END">>), LAMBDA end :
    Result(end.p, Function(fun.value.pos, name.value.value, body.value), None)))))

\* Parser.__next__ when it does not raise StopIteration
Parser__next__(p) ==
    IF p.current.kind = "FUN" THEN parse_function(p) ELSE parse_atom(p)

(***************************************************************************)
(* Token lists to parse.  A list of kinds is written out as a source text, *)
(* one lexeme of each kind, and read back with Lexer.list.                 *)
(***************************************************************************)
MaxTokens == 3     \* longest token list drawn over ParserKinds
MaxElif == 2       \* most elif arms of a drawn if form
MaxItems == 3      \* most top-level items of a drawn program

Lexeme(kind) ==
    CASE kind = "ILLEGAL" -> <<"'", "'">>
      [] kind = "COMMENT" -> <<";", "c">>
      [] kind = "WORD" -> <<"+">>
      [] kind = "NAME" -> <<"f">>                \* a second WORD
      [] kind = "INTEGER" -> <<"1">>
      [] kind = "FLOAT" -> <<"1", ".", "5">>
      [] kind = "BOOLEAN" -> <<"t", "r", "u", "e">>
      [] kind = "STRING" -> <<"\"", "s", "\"">>
      [] kind = "CHARACTER" -> <<"'", "c", "'">>
      [] OTHER -> CHOOSE s \in DOMAIN STRING_TO_KIND : STRING_TO_KIND[s] = kind

RECURSIVE Unlex(_)
Unlex(kinds) ==
    IF kinds = <<>> THEN <<>>
    ELSE Lexeme(Head(kinds)) \o (IF Head(kinds) = "COMMENT" THEN <<"\n">> ELSE <<" ">>)
         \o Unlex(Tail(kinds))

\* Lexer.list: list(self), from a scanner value
RECURSIVE Lexer_list(_, _)
Lexer_list(s, sc) ==
    LET r == Scanner__next__(s, sc) IN
    IF r.StopIteration THEN <<>>
    ELSE <<tokenize(r.pos, r.lexeme)>> \o Lexer_list(s, r.sc)

TokensOf(kinds) == Lexer_list(Unlex(kinds), [index |-> 0, line |-> 1, row |-> 0])

\* the kinds drawn: two literal kinds stand for the five
ParserKinds == {"ILLEGAL", "COMMENT", "WORD", "INTEGER", "BOOLEAN", "FUN", "END", "IF",
                "THEN", "ELIF", "ELSE", "WHILE", "DO"}

\* the instruction sequences an if form is drawn with
Blocks == {<<>>, <<"INTEGER">>, <<"WORD", "STRING">>}

RECURSIVE Flatten(_)
Flatten(seqs) == IF seqs = <<>> THEN <<>> ELSE Head(seqs) \o Flatten(Tail(seqs))

\* what precedes a drawn if form: nothing, or the head of a loop or of a function
Prefixes == {<<>>, <<"WHILE", "DO">>, <<"FUN", "WORD">>}

\* prefix if C then B (elif C then B)* (else B)? end
IfKinds(f) ==
    f.prefix \o <<"IF">> \o f.conds[1] \o <<"THEN">> \o f.bodies[1]
    \o Flatten([i \in 1..(Len(f.conds) - 1) |->
                   <<"ELIF">> \o f.conds[i + 1] \o <<"THEN">> \o f.bodies[i + 1]])
    \o (IF f.else THEN <<"ELSE">> \o f.last ELSE <<>>)
    \o <<"END">>

IfForms ==
    UNION {[form : {"if"}, conds : [1..(n + 1) -> Blocks], bodies : [1..(n + 1) -> Blocks],
            else : BOOLEAN, last : Blocks, cut : {0}, prefix : Prefixes] : n \in 0..MaxElif}

\* the top-level items a program is drawn from
Items ==
    { <<"INTEGER">>, <<"WORD">>,
      <<"FUN", "NAME", "END">>,
      <<"FUN", "WORD", "INTEGER", "END">>,
      <<"WHILE", "DO", "WORD", "END">>,
      <<"IF", "THEN", "END">>,
      <<"FUN", "NAME", "IF", "BOOLEAN", "THEN", "ELSE", "NAME", "END", "END">> }

TopForms == UNION {[form : {"top"}, items : [1..n -> Items]] : n \in 1..MaxItems}

\* any short list of kinds; a program of top-level items; an if form, whole (cut = 0)
\* or cut short after its first `cut` tokens
Given ==
    [form : {"any"}, kinds : AllStrings(ParserKinds, MaxTokens)]
    \cup TopForms
    \cup {f \in IfForms : (f.else \/ f.last = <<>>)
                             /\ (f.prefix = <<>> \/ f.last = <<>>)}
    \cup {[f EXCEPT !.cut = n] :
              f \in {g \in IfForms : g.last = <<>> /\ g.bodies[1] = <<>> /\ g.prefix = <<>>},
              n \in 1..3}

KindsOf(g) ==
    IF g.form = "any" THEN g.kinds
    ELSE IF g.form = "top" THEN Flatten(g.items)
    ELSE IF g.cut = 0 THEN IfKinds(g)
    ELSE SubSeq(IfKinds(g), 1, Len(IfKinds(g)) - g.cut)

(***************************************************************************)
(* The Parser on a token list: Parser(tokens).program, one request of the  *)
(* Parser (one `for atom in self` round) per step.                         *)
(***************************************************************************)
InitParser ==
    /\ given \in Given
    /\ string = Unlex(KindsOf(given))
    /\ index = 0 /\ line = 1 /\ row = 0
    /\ scanned = <<>> /\ exhausted = 0
    /\ listed = TokensOf(KindsOf(given))
    /\ tokens = Parser(listed).tokens
    /\ current = Parser(listed).current
    /\ prog = [functions |-> <<>>, body |-> <<>>]
    /\ stderr = None
    /\ tokenized = None /\ functions = None
    /\ pc = "program"

parser == [tokens |-> tokens, current |-> current]

\* Parser.program, one round of its loop
program ==
    /\ pc = "program"
    /\ \/ /\ current = None                          \* StopIteration: return prog
          /\ pc' = "returned"
          /\ UNCHANGED <<tokens, current, prog, stderr>>
       \/ /\ current # None
          /\ LET atom == Parser__next__(parser) IN
             \/ /\ atom.exit = None
                /\ tokens' = atom.p.tokens /\ current' = atom.p.current
                /\ prog' = IF atom.value.class = "Function"
                           THEN [prog EXCEPT !.functions = Append(@, atom.value)]
                           ELSE [prog EXCEPT !.body = Append(@, atom.value)]
                /\ UNCHANGED <<stderr, pc>>
             \/ /\ atom.exit # None                  \* report: print and exit()
                /\ stderr' = atom.exit
                /\ pc' = "exited"
                /\ UNCHANGED <<tokens, current, prog>>
    /\ UNCHANGED <<string, index, line, row, scanned, listed, exhausted,
                   tokenized, functions, given>>

NextParser == program

SpecParser == InitParser /\ [][NextParser]_vars

(***************************************************************************)
(* The driver, main, called with one path argument whose file was read:    *)
(* lines 394-403.                                                          *)
(***************************************************************************)
\* faulty sifters: one that stops at the first match, one that excludes nothing
Kind_first(self, iterable) ==
    LET found == SelectSeq(iterable, LAMBDA token : token.kind = self) IN
    IF found = <<>> THEN <<>> ELSE <<Head(found)>>

Kind_all(self, iterable) == iterable

\* Kind.filter and Kind.exclude, attached by siftable
Kind_filter(self, iterable) == SelectSeq(iterable, LAMBDA token : token.kind = self)

Kind_exclude(self, iterable) == SelectSeq(iterable, LAMBDA token : token.kind # self)

\* the source texts main is run on
MainSources == Sources \cup {Unlex(kinds) : kinds \in AllStrings(ParserKinds, MaxTokens)}

InitMain ==
    /\ string \in MainSources
    /\ ScannerInit
    /\ NoParser
    /\ given = [form |-> "main"]
    /\ pc = "list"

\* tokens = Lexer(path).list(), one request of the Lexer per step
main_list ==
    /\ pc = "list"
    /\ LET r == Scanner__next__(string, scanner) IN
       \/ LexerReturn(r) /\ UNCHANGED <<exhausted, stderr, pc>>
       \/ /\ LexerRaise(r) /\ exhausted' = exhausted + 1 /\ pc' = "illegals"
          /\ UNCHANGED stderr
       \/ LexerError(r) /\ UNCHANGED exhausted
    /\ UNCHANGED <<string, tokens, current, prog, tokenized, functions, given>>

\* lines 396-399: report the ILLEGAL tokens, all in one message
main_illegals ==
    /\ pc = "illegals"
    /\ LET illegals == Kind_filter("ILLEGAL", listed) IN
       IF illegals # <<>>
       THEN /\ stderr' = [report |-> "illegal word(s)",
                          words |-> [i \in 1..Len(illegals) |->
                                        [value |-> illegals[i].value, at |-> illegals[i].pos]]]
            /\ pc' = "exited"
       ELSE /\ pc' = "Parser"
            /\ UNCHANGED stderr
    /\ UNCHANGED <<string, index, line, row, scanned, listed, exhausted,
                   tokens, current, prog, tokenized, functions, given>>

\* line 401: Parser(Kind.COMMENT.exclude(tokens))
main_Parser ==
    /\ pc = "Parser"
    /\ LET p == Parser(Kind_exclude("COMMENT", listed)) IN
       tokens' = p.tokens /\ current' = p.current
    /\ pc' = "program"
    /\ UNCHANGED <<string, index, line, row, scanned, listed, exhausted,
                   prog, stderr, tokenized, functions, given>>

\* line 403: print(program)
main_print ==
    /\ pc = "returned"
    /\ given.form = "main"
    /\ pc' = "printed"
    /\ UNCHANGED <<string, index, line, row, scanned, listed, exhausted,
                   tokens, current, prog, stderr, tokenized, functions, given>>

\* main on a source text, or a caller handing a token list to a Parser
Init == InitMain \/ InitParser

Next == main_list \/ main_illegals \/ main_Parser \/ program \/ main_print

Spec == Init /\ [][Next]_vars

(***************************************************************************)
(* C2.  The if grammar.                                                    *)
(***************************************************************************)
\* the cases of a drawn if form f read off its token list: arm i starts at the
\* keyword at index o; a block of leaves is parsed to those very tokens
RECURSIVE ArmCases(_, _, _, _)
ArmCases(f, toks, i, o) ==
    IF i > Len(f.conds)
    THEN IF f.else THEN << <<NoCond, SubSeq(toks, o + 1, o + Len(f.last))>> >> ELSE <<>>
    ELSE LET c == Len(f.conds[i])
             b == Len(f.bodies[i])
         IN << <<SubSeq(toks, o + 1, o + c), SubSeq(toks, o + c + 2, o + c + 1 + b)>> >>
            \o ArmCases(f, toks, i + 1, o + c + b + 2)

Finished == pc \in {"returned", "exited"}

\* C2: a token list `if C then B (elif C then B)* (else B)? end` is accepted and
\* yields one If node whose cases are its (condition, branch) pairs in source order,
\* the else arm last with an absent condition; the else is optional with or without
\* elif arms
C2_IfFormAccepted ==
    (given.form = "if" /\ given.cut = 0 /\ given.prefix = <<>> /\ Finished) =>
        /\ pc = "returned"
        /\ stderr = None
        /\ prog.functions = <<>>
        /\ Len(prog.body) = 1
        /\ prog.body[1].class = "If"
        /\ prog.body[1].pos = listed[1].pos
        /\ prog.body[1].cases = ArmCases(given, listed, 1, 1)

(***************************************************************************)
(* C5.  Missing end.                                                       *)
(***************************************************************************)
\* the constructs of the grammar left open after a list of kinds, innermost last:
\* "if?" and "while?" await then and do, "fun?" awaits its name, "if", "else",
\* "while" and "fun" await end; <<"bad">> when the kinds are no start of a program
RECURSIVE Open(_, _)
Open(kinds, stack) ==
    IF kinds = <<>> \/ stack = <<"bad">> THEN stack
    ELSE LET k == Head(kinds)
             n == Len(stack)
             top == IF n = 0 THEN "top" ELSE stack[n]
             below == SubSeq(stack, 1, n - 1)
             after ==
                 IF top = "fun?" THEN IF k = "WORD" THEN Append(below, "fun") ELSE <<"bad">>
                 ELSE IF k \in VALUE_KINDS \cup {"WORD"} THEN stack
                 ELSE IF k = "IF" THEN Append(stack, "if?")
                 ELSE IF k = "WHILE" THEN Append(stack, "while?")
                 ELSE IF k = "FUN" /\ n = 0 THEN <<"fun?">>
                 ELSE IF k = "THEN" /\ top = "if?" THEN Append(below, "if")
                 ELSE IF k = "ELIF" /\ top = "if" THEN Append(below, "if?")
                 ELSE IF k = "ELSE" /\ top = "if" THEN Append(below, "else")
                 ELSE IF k = "DO" /\ top = "while?" THEN Append(below, "while")
                 ELSE IF k = "END" /\ top \in {"if", "else", "while", "fun"} THEN below
                 ELSE <<"bad">>
         IN Open(Tail(kinds), after)

KindsListed == [i \in 1..Len(listed) |-> listed[i].kind]

\* the token list ends while its innermost open construct awaits its end
AwaitsEnd ==
    LET open == Open(KindsListed, <<>>) IN
    open # <<>> /\ open[Len(open)] \in {"if", "else", "while", "fun"}

MissingEnd == [report |-> "expected", kinds |-> <<"END">>, found |-> "nothing", at |-> None]

\* C5: when the token list ends while an if after its then (in any arm), a while
\* after its do or a fun after its name awaits its end, the parser fails with the
\* diagnostic that END was expected and nothing found, and returns no Program
C5_MissingEnd ==
    (given.form \in {"any", "if"} /\ Finished /\ AwaitsEnd) =>
        pc = "exited" /\ stderr = MissingEnd

(***************************************************************************)
(* C10.  No ILLEGAL token reaches a Program.                               *)
(***************************************************************************)
\* the token list of the source text
TokenList == Lexer_list(string, [index |-> 0, line |-> 1, row |-> 0])

RECURSIVE Leaves(_)
\* the leaf instructions of a list of nodes
Leaves(nodes) ==
    IF nodes = <<>> THEN <<>>
    ELSE LET node == Head(nodes)
             CaseLeaves(c) == (IF c[1] = NoCond THEN <<>> ELSE Leaves(c[1])) \o Leaves(c[2])
             RECURSIVE AllCases(_)
             AllCases(cs) == IF cs = <<>> THEN <<>> ELSE CaseLeaves(Head(cs)) \o AllCases(Tail(cs))
             mine == IF node.class = "Token" THEN <<node>>
                     ELSE IF node.class = "If" THEN AllCases(node.cases)
                     ELSE IF node.class = "While" THEN Leaves(node.cond) \o Leaves(node.body)
                     ELSE Leaves(node.body)
         IN mine \o Leaves(Tail(nodes))

IllegalWords(toks) ==
    LET ill == SelectSeq(toks, LAMBDA token : token.kind = "ILLEGAL") IN
    [i \in 1..Len(ill) |-> [value |-> ill[i].value, at |-> ill[i].pos]]

\* C10: when the token list of the source holds an ILLEGAL token, main reports all of
\* them, raw text and position, in source order, in one diagnostic and ends before any
\* parsing; and every leaf of a Program under construction is a literal or a WORD
C10_NoIllegalInProgram ==
    /\ (given.form = "main" /\ IllegalWords(TokenList) # <<>>) =>
          /\ pc \in {"list", "illegals", "exited"}
          /\ tokens = <<>> /\ current = None
          /\ prog = [functions |-> <<>>, body |-> <<>>]
          /\ pc = "exited" =>
                stderr = [report |-> "illegal word(s)", words |-> IllegalWords(TokenList)]
    /\ LET leaves == Leaves(prog.functions \o prog.body) IN
       \A i \in 1..Len(leaves) :
           leaves[i].class = "Token" /\ leaves[i].kind \in VALUE_KINDS \cup {"WORD"}

C10_Witness ==
    /\ given.form = "main" /\ pc = "exited"
    /\ stderr = [report |-> "illegal word(s)", words |-> IllegalWords(TokenList)]
    /\ Len(stderr.words) >= 2
    /\ Len(listed) > Len(stderr.words)

(***************************************************************************)
(* C7.  Comment filtering.                                                 *)
(***************************************************************************)
\* Parser.program as a whole: what a run of its loop from p ends with
RECURSIVE Parser_program(_, _)
Parser_program(p, pr) ==
    IF p.current = None THEN [returned |-> pr]
    ELSE LET atom == Parser__next__(p) IN
         IF atom.exit # None THEN [exited |-> atom.exit]
         ELSE Parser_program(atom.p,
                  IF atom.value.class = "Function"
                  THEN [pr EXCEPT !.functions = Append(@, atom.value)]
                  ELSE [pr EXCEPT !.body = Append(@, atom.value)])

\* what line 401 ends with on a token list
Parsing(toks) ==
    Parser_program(Parser(Kind_exclude("COMMENT", toks)), [functions |-> <<>>, body |-> <<>>])

AComment == Token(Position(1, 0), "COMMENT", [str |-> <<"c">>])

\* toks with one COMMENT token removed, or one inserted
OneCommentAway(toks) ==
    {SubSeq(toks, 1, i - 1) \o SubSeq(toks, i + 1, Len(toks)) :
        i \in {j \in 1..Len(toks) : toks[j].kind = "COMMENT"}}
    \cup {SubSeq(toks, 1, i) \o <<AComment>> \o SubSeq(toks, i + 1, Len(toks)) :
             i \in 0..Len(toks)}

Parsed ==
    /\ given.form = "main"
    /\ pc = "printed" \/ (pc = "exited" /\ stderr.report # "illegal word(s)")

\* C7: main never hands a COMMENT token to the Parser, and what parsing ends with
\* (the Program or the fatal error) is the same for every token list with the same
\* non-COMMENT tokens: a COMMENT inserted or removed anywhere changes nothing
C7_CommentsFiltered ==
    given.form = "main" =>
        /\ current # None => current.kind # "COMMENT"
        /\ \A i \in 1..Len(tokens) : tokens[i].kind # "COMMENT"
        /\ Parsed =>
              \A other \in OneCommentAway(listed) :
                  Parsing(other) = IF pc = "printed" THEN [returned |-> prog]
                                   ELSE [exited |-> stderr]

C7_Witness ==
    /\ Parsed /\ pc = "printed"
    /\ \E i \in 1..Len(listed) : listed[i].kind = "COMMENT"
    /\ prog.body # <<>>

(***************************************************************************)
(* C3.  Type checking of word application.                                 *)
(***************************************************************************)
DataType(kind) ==
    CASE kind = "INTEGER" -> "INT" [] kind = "FLOAT" -> "FLOAT" [] kind = "BOOLEAN" -> "BOOL"
      [] kind = "STRING" -> "STR" [] kind = "CHARACTER" -> "CHAR"

\* threading the abstract stack through a body of literals and applications of +
\* (INT, INT -> INT): the position of the first + applied to an entry that is not INT,
\* or None (the threading stops at anything else)
RECURSIVE Mismatch(_, _)
Mismatch(body, stack) ==
    IF body = <<>> \/ Head(body).class # "Token" THEN None
    ELSE LET token == Head(body)
             n == Len(stack)
         IN IF token.kind \in VALUE_KINDS
            THEN Mismatch(Tail(body), Append(stack, DataType(token.kind)))
            ELSE IF token.value = [str |-> <<"+">>] /\ n >= 2
            THEN IF stack[n] = "INT" /\ stack[n - 1] = "INT"
                 THEN Mismatch(Tail(body), Append(SubSeq(stack, 1, n - 2), "INT"))
                 ELSE token.pos
            ELSE None

\* C3: a run on a body in which a word is applied to a stack entry of the wrong type
\* (1 true +) fails with a TypeMismatch diagnostic at the word instead of accepting
\* (printing) the program
C3_TypeMismatchRejected ==
    (given.form = "main" /\ pc \in {"returned", "printed"}) => Mismatch(prog.body, <<>>) = None

(***************************************************************************)
(* tokenize on one raw lexeme: a text that the Scanner returns whole.      *)
(***************************************************************************)
MaxLexeme == 4     \* longest lexeme drawn over LexemeAlphabet

LexemeAlphabet == {"0", "1", "-", ".", "\"", "'", ";", "a", " ", "\n"}

\* true, false and words one character away from them and from the keywords
Words ==
    DOMAIN STRING_TO_KIND
    \cup { <<"t", "r", "u", "e">>, <<"f", "a", "l", "s", "e">>, <<"t", "r", "u">>,
           <<"T", "r", "u", "e">>, <<"f", "a", "l", "s", "e", "1">>, <<"i", "f", "f">>,
           <<"e", "n", "d", ";">>, <<"-", "d", "o">>, <<"1", "2", ".", "5", "0">>,
           <<"-", "0", "0", "7">>, <<"\"", "h", "i", "\"">>, <<"'", "x", "'">> }

IsLexeme(s) ==
    LET r == Scanner__next__(s, [index |-> 0, line |-> 1, row |-> 0]) IN
    ~r.StopIteration /\ r.lexeme = s

\* digit strings one digit longer than int() converts
LongDigits == [i \in 1..(MAX_STR_DIGITS + 1) |-> "1"]

Lexemes ==
    {s \in AllStrings(LexemeAlphabet, MaxLexeme) \cup Words : IsLexeme(s)}
    \cup {LongDigits, <<"-">> \o LongDigits}

InitTokenize ==
    /\ given \in [form : {"lexeme"}, pos : {Position(1, 0), Position(2, 3)}, lexeme : Lexemes]
    /\ string = given.lexeme
    /\ ScannerInit
    /\ NoParser
    /\ pc = "tokenize"

\* tokenize(pos, string): lines 146-164
tokenize_call ==
    /\ pc = "tokenize"
    /\ tokenized' = tokenize(given.pos, given.lexeme)
    /\ pc' = IF tokenized'.class = "Token" THEN "tokenized" ELSE "raised"
    /\ UNCHANGED <<string, index, line, row, scanned, listed, exhausted,
                   tokens, current, prog, stderr, functions, given>>

NextTokenize == tokenize_call

SpecTokenize == InitTokenize /\ [][NextTokenize]_vars

(***************************************************************************)
(* C8.  Classification by the first matching rule.                         *)
(***************************************************************************)
DigitRun(s) == s # <<>> /\ \A i \in 1..Len(s) : s[i] \in Digits

Unsign(s) == IF s # <<>> /\ s[1] = "-" THEN Tail(s) ELSE s

HasQuote(s) == \E i \in 1..Len(s) : s[i] \in Quotes

\* delimited by one pair of double quotes, no double quote inside
StringLiteral(s) ==
    Len(s) >= 2 /\ s[1] = "\"" /\ s[Len(s)] = "\"" /\ \A i \in 2..(Len(s) - 1) : s[i] # "\""

\* one pair of single quotes around exactly one character
CharacterLiteral(s) == Len(s) = 3 /\ s[1] = "'" /\ s[3] = "'" /\ s[2] # "'"

Keywords ==
    { <<"f", "u", "n">>, <<"e", "n", "d">>, <<"i", "f">>, <<"t", "h", "e", "n">>,
      <<"e", "l", "i", "f">>, <<"e", "l", "s", "e">>, <<"w", "h", "i", "l", "e">>,
      <<"d", "o">> }

Booleans == { <<"t", "r", "u", "e">>, <<"f", "a", "l", "s", "e">> }

\* the rules in their order; the keyword rule gives "keyword"
FirstRule(s) ==
    IF DigitRun(Unsign(s)) THEN "INTEGER"
    ELSE IF \E k \in 1..Len(Unsign(s)) :
                /\ Unsign(s)[k] = "."
                /\ DigitRun(SubSeq(Unsign(s), 1, k - 1))
                /\ DigitRun(SubSeq(Unsign(s), k + 1, Len(Unsign(s))))
    THEN "FLOAT"
    ELSE IF s \in Booleans THEN "BOOLEAN"
    ELSE IF StringLiteral(s) THEN "STRING"
    ELSE IF CharacterLiteral(s) THEN "CHARACTER"
    ELSE IF s \in Keywords THEN "keyword"
    ELSE IF s[1] = ";" THEN "COMMENT"
    ELSE IF ~HasQuote(s) THEN "WORD"
    ELSE "ILLEGAL"

ControlKinds == {"FUN", "END", "IF", "THEN", "ELIF", "ELSE", "WHILE", "DO"}

Called == given.form = "lexeme" /\ pc \in {"tokenized", "raised"}

\* what C8 says of the kind when tokenize returns a Token
Classified ==
    LET s == given.lexeme IN
    /\ tokenized.pos = given.pos
    /\ IF FirstRule(s) = "keyword" THEN tokenized.kind \in ControlKinds
       ELSE tokenized.kind = FirstRule(s)
    /\ tokenized.kind = "ILLEGAL" <=>
          (HasQuote(s) /\ s[1] # ";" /\ ~StringLiteral(s) /\ ~CharacterLiteral(s))
    /\ (s \in Booleans \cup Keywords \/ DigitRun(s)) => tokenized.kind # "WORD"

\* C8: for every raw lexeme tokenize returns a Token, never an error, whose kind is
\* that of the first matching rule in the order INTEGER, FLOAT, BOOLEAN, STRING,
\* CHARACTER, keyword, COMMENT, WORD, and ILLEGAL otherwise; so a lexeme is ILLEGAL
\* exactly when it holds a quote, does not start with ; and is no single string or
\* character literal, and true, false, keywords and digit strings are never WORD
C8_TotalFirstMatch ==
    Called => (tokenized.class = "Token" /\ Classified)

\* the same of the calls that return
C8_WhenReturned ==
    (Called /\ pc = "tokenized") => (tokenized.class = "Token" /\ Classified)

(***************************************************************************)
(* C9.  Literal round trip.                                                *)
(***************************************************************************)
DigitOf(d) == CHOOSE c \in Digits : DigitValue(c) = d

RECURSIVE Numeral(_)
\* the decimal digits of a natural number
Numeral(n) == IF n < 10 THEN <<DigitOf(n)>> ELSE Numeral(n \div 10) \o <<DigitOf(n % 10)>>

RECURSIVE Padded(_, _)
Padded(digits, n) == IF Len(digits) >= n THEN digits ELSE Padded(<<"0">> \o digits, n)

Minus(n) == IF n < 0 THEN <<"-">> ELSE <<>>

Magnitude(n) == IF n < 0 THEN 0 - n ELSE n

\* a decoded value written back in the syntax of its kind
Literal(token) ==
    CASE token.kind = "INTEGER" -> Minus(token.value.int) \o Numeral(Magnitude(token.value.int))
      [] token.kind = "FLOAT" ->
            LET d == token.value.float
                digits == Padded(Numeral(Magnitude(d.num)), d.scale + 1)
                whole == SubSeq(digits, 1, Len(digits) - d.scale)
                fraction == SubSeq(digits, Len(digits) - d.scale + 1, Len(digits))
            IN Minus(d.num) \o whole \o <<".">> \o (IF fraction = <<>> THEN <<"0">> ELSE fraction)
      [] token.kind = "BOOLEAN" ->
            IF token.value.bool THEN <<"t", "r", "u", "e">> ELSE <<"f", "a", "l", "s", "e">>
      [] token.kind = "STRING" -> <<"\"">> \o token.value.str \o <<"\"">>
      [] token.kind = "CHARACTER" -> <<"'">> \o token.value.str \o <<"'">>

ReturnedLiteral ==
    given.form = "lexeme" /\ pc = "tokenized" /\ tokenized.kind \in VALUE_KINDS

\* C9: a token of a literal kind that tokenize produced, its decoded value written
\* back as a lexeme in the syntax of its kind and tokenized again, gives a token of
\* the same kind with the same decoded value
C9_LiteralRoundTrip ==
    ReturnedLiteral =>
        LET again == tokenize(given.pos, Literal(tokenized)) IN
        /\ again.class = "Token"
        /\ again.kind = tokenized.kind
        /\ again.value = tokenized.value

C9_Witness ==
    /\ ReturnedLiteral
    /\ tokenized.kind = "STRING"
    /\ tokenized.value.str # <<>>
    /\ tokenize(given.pos, Literal(tokenized)) = tokenized

(***************************************************************************)
(* Signatures, the builtin table and the Checker: lines 334-385.  The      *)
(* table is the one the dict display of lines 368-381 writes down; a word  *)
(* is its Python string.                                                   *)
(***************************************************************************)
Signature(consume, produce) ==
    [class |-> "Signature", consume |-> consume, produce |-> produce]

shape(signature) == <<Len(signature.consume), Len(signature.produce)>>

DT(name) == [class |-> "DT", name |-> name]

\* the placeholder named `name` that the table is written with; what the call
\* Generic(...) does when the module is loaded is Generic__init__
Generic(name) == [class |-> "Generic", name |-> name]

\* the call Generic(*args): __init__(self) takes no argument, so a call with any is a
\* TypeError; a call with none reaches `self.name = name`, and no `name` is defined
Generic__init__(args) ==
    IF Len(args) # 0 THEN [class |-> "TypeError"] ELSE [class |-> "NameError"]

BUILTINS ==
    ("+" :> Signature(<<DT("INT"), DT("INT")>>, <<DT("INT")>>)) @@
    ("-" :> Signature(<<DT("INT"), DT("INT")>>, <<DT("INT")>>)) @@
    ("*" :> Signature(<<DT("INT"), DT("INT")>>, <<DT("INT")>>)) @@
    ("=" :> Signature(<<DT("INT"), DT("INT")>>, <<DT("BOOL")>>)) @@
    (">" :> Signature(<<DT("INT"), DT("INT")>>, <<DT("BOOL")>>)) @@
    ("<" :> Signature(<<DT("INT"), DT("INT")>>, <<DT("BOOL")>>)) @@
    ("println" :> Signature(<<Generic("T")>>, <<>>)) @@
    ("drop" :> Signature(<<Generic("T")>>, <<>>)) @@
    ("dup" :> Signature(<<Generic("T"), Generic("T")>>, <<Generic("T")>>))

\* the signatures and words of the tables a caller supplies
UserSignatures ==
    { Signature(<<>>, <<>>),
      Signature(<<DT("INT")>>, <<DT("INT")>>),
      Signature(<<DT("STR"), DT("CHAR")>>, <<DT("FLOAT")>>),
      Signature(<<Generic("T")>>, <<Generic("T"), Generic("T")>>) }

UserWords == {"f", "g", "dup"}

Tables == UNION {[words -> UserSignatures] : words \in (SUBSET UserWords) \ {{}}}

\* the functions argument: None by default, or a table
Arguments == {None} \cup {[dict |-> table] : table \in Tables}

InitChecker ==
    /\ given \in [form : {"Checker"}, functions : Arguments]
    /\ string = <<>>
    /\ ScannerInit
    /\ NoParser
    /\ pc = "Checker"

\* Checker.__init__: line 385
Checker__init__ ==
    /\ pc = "Checker"
    /\ functions' = IF given.functions = None THEN BUILTINS ELSE given.functions.dict
    /\ pc' = "constructed"
    /\ UNCHANGED <<string, index, line, row, scanned, listed, exhausted,
                   tokens, current, prog, stderr, tokenized, given>>

NextChecker == Checker__init__

SpecChecker == InitChecker /\ [][NextChecker]_vars

(***************************************************************************)
(* C4.  The builtin signature table.                                       *)
(***************************************************************************)
Int2(result) ==
    [class |-> "Signature",
     consume |-> <<[class |-> "DT", name |-> "INT"], [class |-> "DT", name |-> "INT"]>>,
     produce |-> <<[class |-> "DT", name |-> result]>>]

AnyT == [class |-> "Generic", name |-> "T"]

\* the table as stated: + - * : INT,INT -> INT; = > < : INT,INT -> BOOL;
\* println, drop : T -> (); dup : T -> T,T
StatedTable ==
    [word \in {"+", "-", "*", "=", ">", "<", "println", "drop", "dup"} |->
        CASE word \in {"+", "-", "*"} -> Int2("INT")
          [] word \in {"=", ">", "<"} -> Int2("BOOL")
          [] word \in {"println", "drop"} ->
                [class |-> "Signature", consume |-> <<AnyT>>, produce |-> <<>>]
          [] word = "dup" ->
                [class |-> "Signature", consume |-> <<AnyT>>, produce |-> <<AnyT, AnyT>>]]

\* C4: the symbol table of a Checker constructed without a table is exactly the
\* builtins + - * (INT, INT to INT), = > < (INT, INT to BOOL), println and drop
\* (one T to nothing) and dup, consuming one T and producing two T (shape 1, 2)
C4_BuiltinTable ==
    (given.form = "Checker" /\ given.functions = None /\ pc = "constructed") =>
        /\ functions = StatedTable
        /\ shape(functions["dup"]) = <<1, 2>>

(***************************************************************************)
(* C11.  Top-level routing.                                                *)
(***************************************************************************)
Opens == {"IF", "WHILE", "FUN"}

\* the index of the token that ends the item begun before j at nesting depth d
RECURSIVE ItemEnd(_, _, _)
ItemEnd(toks, j, d) ==
    IF j > Len(toks) THEN Len(toks)
    ELSE LET depth == IF toks[j].kind \in Opens THEN d + 1
                      ELSE IF toks[j].kind = "END" THEN d - 1 ELSE d
         IN IF depth <= 0 THEN j ELSE ItemEnd(toks, j + 1, depth)

\* a token list cut into its top-level items
RECURSIVE TopItems(_, _)
TopItems(toks, i) ==
    IF i > Len(toks) THEN <<>>
    ELSE <<SubSeq(toks, i, ItemEnd(toks, i, 0))>> \o TopItems(toks, ItemEnd(toks, i, 0) + 1)

\* the tokens a tree keeps: leaves, and the heads that give If and While their pos
Kept(toks) == SelectSeq(toks, LAMBDA t : t.kind \in VALUE_KINDS \cup {"WORD", "IF", "WHILE"})

RECURSIVE NodeTokens(_)
\* the tokens kept by a list of nodes, in the order of the tree
NodeTokens(nodes) ==
    IF nodes = <<>> THEN <<>>
    ELSE LET node == Head(nodes)
             CaseTokens(c) ==
                 (IF c[1] = NoCond THEN <<>> ELSE NodeTokens(c[1])) \o NodeTokens(c[2])
             RECURSIVE OfCases(_)
             OfCases(cs) == IF cs = <<>> THEN <<>> ELSE CaseTokens(Head(cs)) \o OfCases(Tail(cs))
             mine == IF node.class = "Token" THEN <<node>>
                     ELSE IF node.class = "If"
                     THEN <<Token(node.pos, "IF", None)>> \o OfCases(node.cases)
                     ELSE IF node.class = "While"
                     THEN <<Token(node.pos, "WHILE", None)>>
                          \o NodeTokens(node.cond) \o NodeTokens(node.body)
                     ELSE <<Token(node.pos, "FUN", None)>> \o NodeTokens(node.body)
         IN mine \o NodeTokens(Tail(nodes))

ParsedList == given.form \in {"any", "if", "top"} /\ pc = "returned"

\* C11: when a token list parses, Program.functions holds its top-level fun items in
\* order, each at its FUN token and named by the text of its WORD token,
\* Program.body holds the other top-level items in order, and every token was
\* consumed, each once and in order
C11_TopLevelRouting ==
    ParsedList =>
        LET items == TopItems(listed, 1)
            funs == SelectSeq(items, LAMBDA item : item[1].kind = "FUN")
            others == SelectSeq(items, LAMBDA item : item[1].kind # "FUN")
        IN /\ tokens = <<>> /\ current = None
           /\ Len(prog.functions) = Len(funs)
           /\ \A i \in 1..Len(funs) :
                 /\ prog.functions[i].class = "Function"
                 /\ prog.functions[i].pos = funs[i][1].pos
                 /\ prog.functions[i].name = funs[i][2].value
                 /\ NodeTokens(prog.functions[i].body)
                       = Kept(SubSeq(funs[i], 3, Len(funs[i]) - 1))
           /\ Len(prog.body) = Len(others)
           /\ \A i \in 1..Len(others) :
                 /\ prog.body[i].class # "Function"
                 /\ NodeTokens(<<prog.body[i]>>) = Kept(others[i])

C11_Witness ==
    /\ ParsedList
    /\ Len(prog.functions) = 2 /\ Len(prog.body) = 1
    /\ prog.functions[1].name # prog.functions[2].name
    /\ prog.functions[2].pos.row < prog.body[1].pos.row

(***************************************************************************)
(* C12.  Quoted spans inside a lexeme.                                     *)
(***************************************************************************)
\* the offsets after i at which the character at i occurs again
Closers(s, i) == {c \in (i + 1)..(Len(s) - 1) : At(s, c) = At(s, i)}

Least(set) == CHOOSE c \in set : \A d \in set : c <= d

\* the lexeme s[..end) from offset i on, i outside any quoted span: each quote met
\* that is closed later in the text has its span and its closing quote in the lexeme;
\* after the closing quote the lexeme ends at whitespace and goes on with any other
\* character (what a ; does there is left open)
RECURSIVE Spans(_, _, _)
Spans(s, i, end) ==
    IF i >= end THEN TRUE
    ELSE IF At(s, i) \notin Quotes THEN Spans(s, i + 1, end)
    ELSE IF Closers(s, i) = {} THEN TRUE
    ELSE LET c == Least(Closers(s, i)) IN
         /\ c < end
         /\ (c + 1 < Len(s) /\ isspace(At(s, c + 1))) => end = c + 1
         /\ (c + 1 < Len(s) /\ ~isspace(At(s, c + 1)) /\ At(s, c + 1) # ";") => end > c + 1
         /\ Spans(s, c + 1, end)

LexemeEnd(k) == scanned[k].start + Len(scanned[k].lexeme)

\* C12: a quote met in a lexeme (not a comment) takes into the lexeme every character
\* up to the next occurrence of the same quote, and that closing quote; scanning then
\* resumes, and the lexeme ends if whitespace follows the closing quote; so a closed
\* quoted span is never split across two lexemes
C12_QuotedSpans ==
    given.form = "text" =>
        \A k \in 1..Len(scanned) :
            /\ scanned[k].lexeme = Slice(string, scanned[k].start, LexemeEnd(k))
            /\ At(string, scanned[k].start) # ";" =>
                   Spans(string, scanned[k].start, LexemeEnd(k))

C12_Witness ==
    /\ given.form = "text"
    /\ \E k \in 1..Len(scanned) :
          scanned[k].lexeme = <<"a", "\"", "b", " ", "'", "\n", "\"", "c">>

(***************************************************************************)
(* C13.  Lexemes are delimited by whitespace.                              *)
(***************************************************************************)
\* C13: a lexeme whose first character is not ; ends only at a whitespace character
\* or at end of input, and a ; starts a comment only where a lexeme starts, that is
\* at the start of the text or after a whitespace character
C13_WhitespaceDelimited ==
    given.form = "text" =>
        \A k \in 1..Len(scanned) :
            IF At(string, scanned[k].start) # ";"
            THEN \/ LexemeEnd(k) >= Len(string)
                 \/ isspace(At(string, LexemeEnd(k)))
            ELSE \/ scanned[k].start = 0
                 \/ isspace(At(string, scanned[k].start - 1))

(***************************************************************************)
(* C14.  A quote that is never closed.                                     *)
(***************************************************************************)
\* in the lexeme s[i..end), i outside any quoted span, a quote is met that does not
\* occur again in the rest of the text
RECURSIVE Unterminated(_, _, _)
Unterminated(s, i, end) ==
    IF i >= end THEN FALSE
    ELSE IF At(s, i) \notin Quotes THEN Unterminated(s, i + 1, end)
    ELSE IF Closers(s, i) = {} THEN TRUE
    ELSE Unterminated(s, Least(Closers(s, i)) + 1, end)

OpenLexeme(k) ==
    /\ At(string, scanned[k].start) # ";"
    /\ Unterminated(string, scanned[k].start, LexemeEnd(k))

\* C14: a lexeme, not a comment, in which a quote is opened and never closed runs
\* from its start to the end of the text, its token is ILLEGAL with the raw text as
\* value, it is the last lexeme, and the next request to the Scanner gives
\* StopIteration: nothing fails
C14_UnterminatedQuote ==
    given.form = "text" =>
        \A k \in 1..Len(scanned) :
            OpenLexeme(k) =>
                /\ scanned[k].lexeme = Slice(string, scanned[k].start, Len(string))
                /\ pc # "raised" /\ stderr = None
                /\ Len(listed) = Len(scanned)
                /\ listed[k] = Token(scanned[k].pos, "ILLEGAL", [str |-> scanned[k].lexeme])
                /\ k = Len(scanned)
                /\ Scanner__next__(string, scanner).StopIteration

\* the quote of a'b is never closed on a text that goes on for two more words;
\* the Scanner was asked twice more
C14_Witness ==
    /\ given.form = "text"
    /\ string = <<"1", " ", "a", "'", "b", " ", "\"", " ", "c", "\n">>
    /\ Len(scanned) = 2 /\ OpenLexeme(2)
    /\ exhausted = MaxStops

(***************************************************************************)
(* C19.  Every request to the Scanner makes progress or reports exhaustion.*)
(***************************************************************************)
\* nothing but whitespace from the cursor on
OnlyWhitespaceRemains ==
    \A i \in index..(Len(string) - 1) : isspace(At(string, i))

\* a request that returns a lexeme: not empty, and the cursor moved forward past it
LexemeReturned ==
    /\ Len(scanned') = Len(scanned) + 1
    /\ SubSeq(scanned', 1, Len(scanned)) = scanned
    /\ Len(scanned'[Len(scanned')].lexeme) > 0
    /\ index' > index
    /\ index' >= scanned'[Len(scanned')].start + Len(scanned'[Len(scanned')].lexeme)
    /\ exhausted' = exhausted

\* a request that gives StopIteration: no lexeme, no failure
ExhaustedSignal ==
    /\ scanned' = scanned /\ listed' = listed
    /\ exhausted' = exhausted + 1
    /\ pc' = pc /\ stderr' = stderr

RequestStep ==
    (given.form = "text" /\ pc = "lexer") =>
        /\ OnlyWhitespaceRemains => ExhaustedSignal
        /\ ~OnlyWhitespaceRemains => LexemeReturned /\ exhausted = 0

\* C19: each request either returns a lexeme that is not empty and moves the cursor
\* forward, or gives StopIteration; StopIteration is given exactly when only
\* whitespace or nothing remains, it is no failure, and it is given again on every
\* later request; a text of n characters yields n lexemes at most
C19_ProgressAndExhaustion ==
    /\ [](given.form = "text" =>
            /\ Len(scanned) <= Len(string)
            /\ (exhausted > 0 => OnlyWhitespaceRemains))
    /\ [][RequestStep]_vars

\* two lexemes, then trailing whitespace, and StopIteration given MaxStops times
C19_Witness ==
    /\ given.form = "text"
    /\ Len(scanned) = 2
    /\ Len(string) > 0 /\ isspace(At(string, Len(string) - 1))
    /\ exhausted = MaxStops

(***************************************************************************)
(* C20.  The lexemes partition the characters that are not whitespace.     *)
(***************************************************************************)
\* the offset where lexeme k starts and the one after the lexeme before it
LexemeStart(k) == scanned[k].start

PreviousEnd(k) == IF k = 1 THEN 0 ELSE LexemeEnd(k - 1)

\* the characters at offsets a..b-1 are all whitespace
Blank(a, b) == \A i \in a..(b - 1) : isspace(At(string, i))

\* C20: every lexeme is the run of characters of the text at its start offset, the
\* lexemes come in increasing order and do not overlap, none starts with whitespace,
\* and the characters between them, in front of the first and, once the Scanner is
\* exhausted, after the last are all whitespace
C20_LexemesPartition ==
    given.form = "text" =>
        /\ \A k \in 1..Len(scanned) :
              /\ Len(scanned[k].lexeme) > 0
              /\ LexemeEnd(k) <= Len(string)
              /\ \A i \in 1..Len(scanned[k].lexeme) :
                    scanned[k].lexeme[i] = At(string, LexemeStart(k) + i - 1)
              /\ ~isspace(scanned[k].lexeme[1])
              /\ PreviousEnd(k) <= LexemeStart(k)
              /\ Blank(PreviousEnd(k), LexemeStart(k))
        /\ PreviousEnd(Len(scanned) + 1) <= index
        /\ Blank(PreviousEnd(Len(scanned) + 1), Min(index, Len(string)))
        /\ exhausted > 0 => Blank(PreviousEnd(Len(scanned) + 1), Len(string))

\* two lexemes with whitespace between them, one of them holding whitespace in a
\* quoted span, and the Scanner exhausted
C20_Witness ==
    /\ given.form = "text"
    /\ exhausted > 0
    /\ Len(scanned) = 2
    /\ LexemeStart(2) > LexemeEnd(1)
    /\ \E i \in 1..Len(scanned[1].lexeme) : isspace(scanned[1].lexeme[i])

(***************************************************************************)
(* C15.  Instruction positions accept only atoms.                          *)
(***************************************************************************)
LeafKinds == VALUE_KINDS \cup {"WORD"}

Unexpected(token) == [report |-> "unexpected", kind |-> token.kind, at |-> token.pos]

\* the parser standing at the j-th token of the list
ParserAt(j) == Parser(SubSeq(listed, j, Len(listed)))

\* the stop keywords of the places an instruction sequence is collected at: a
\* condition of an if, a first branch, an else branch, a function or loop body, a
\* condition of a loop, and a branch after an elif
StopTuples == {<<"THEN">>, <<"ELIF", "ELSE", "END">>, <<"END">>, <<"DO">>, ElifBranchStops}

\* the single instruction read at token j
AtomAccepted(j) ==
    LET p == ParserAt(j)
        atom == parse_atom(p)
    IN  CASE listed[j].kind \in LeafKinds ->
                 atom = Result(ParserAt(j + 1), listed[j], None)
          [] listed[j].kind \in {"IF", "WHILE"} ->
                 \/ atom.exit # None /\ atom.value = None
                 \/ /\ atom.exit = None
                    /\ atom.value.class = (IF listed[j].kind = "IF" THEN "If" ELSE "While")
                    /\ atom.value.pos = listed[j].pos
          [] OTHER ->
                 atom = Result(p, None, Unexpected(listed[j]))

\* an instruction sequence read from token j on: nothing at a stop keyword, else the
\* single instruction at token j first, its error being the error of the sequence
SequenceAccepted(j, stops) ==
    LET p == ParserAt(j)
        atom == parse_atom(p)
        seq == collect(p, stops)
    IN  IF InKinds(listed[j].kind, stops) THEN seq = Result(p, <<>>, None)
        ELSE IF atom.exit # None THEN seq = atom
        ELSE seq.exit # None \/ (Len(seq.value) >= 1 /\ seq.value[1] = atom.value)

\* the top level at token j: FUN starts a function, anything else is an instruction
TopAccepted(j) ==
    LET p == ParserAt(j)
        item == Parser__next__(p)
    IN  IF listed[j].kind = "FUN"
        THEN \/ item.exit # None /\ item.value = None
             \/ /\ item.exit = None
                /\ item.value.class = "Function" /\ item.value.pos = listed[j].pos
        ELSE item = parse_atom(p)

\* the places of a token list where an instruction is expected right after a fixed
\* head, with the stop keywords of the enclosing construct
Heads ==
    { [head |-> <<>>, stops |-> {"FUN"}],
      [head |-> <<"IF">>, stops |-> {"THEN"}],
      [head |-> <<"IF", "THEN">>, stops |-> {"ELIF", "ELSE", "END"}],
      [head |-> <<"WHILE">>, stops |-> {"DO"}],
      [head |-> <<"WHILE", "DO">>, stops |-> {"END"}],
      [head |-> <<"FUN", "WORD">>, stops |-> {"END"}] }

HeadOf(h) ==
    /\ Len(listed) > Len(h.head)
    /\ SubSeq(KindsListed, 1, Len(h.head)) = h.head

\* C15: at every token of a short list of any kinds, parse_atom takes a literal or
\* WORD as a leaf, starts an If at IF and a While at WHILE, and reports any other
\* kind as unexpected with its kind and position, consuming nothing; a collected
\* sequence is empty at a stop keyword and else begins with that instruction; FUN
\* starts a function at the top level only.  And of every finished parse: a token
\* right after the head of a construct (or the first token) that is neither an atom
\* nor a stop keyword there ends the run with the unexpected-token error naming it
C15_OnlyAtoms ==
    pc \in {"program", "returned", "exited"} =>
        /\ given.form = "any" =>
              \A j \in 1..Len(listed) :
                 /\ AtomAccepted(j)
                 /\ TopAccepted(j)
                 /\ \A stops \in StopTuples : SequenceAccepted(j, stops)
        /\ Finished =>
              \A h \in Heads :
                 (/\ HeadOf(h)
                  /\ listed[Len(h.head) + 1].kind \notin LeafKinds \cup {"IF", "WHILE"} \cup h.stops)
                 => /\ pc = "exited"
                    /\ stderr = Unexpected(listed[Len(h.head) + 1])
                    /\ prog = [functions |-> <<>>, body |-> <<>>]

\* a FUN inside the body of a function, reported as unexpected
C15_Witness ==
    /\ pc = "exited"
    /\ Len(listed) = 3
    /\ KindsListed = <<"FUN", "WORD", "FUN">>
    /\ stderr = Unexpected(listed[3])

(***************************************************************************)
(* C16.  Parsing fails fast, with a single outcome.                        *)
(***************************************************************************)
\* the index of the first token at which the list stops being the start of a program
\* of the grammar, 0 when there is none
FirstViolation ==
    LET bad == {j \in 1..Len(listed) : Open(SubSeq(KindsListed, 1, j), <<>>) = <<"bad">>}
    IN  IF bad = {} THEN 0 ELSE Least(bad)

\* what a diagnostic of the parser names as found, and where
FoundKind(exit) == IF exit.report = "expected" THEN exit.found ELSE exit.kind

ParserDiagnostic ==
    /\ stderr # None
    /\ stderr.report \in {"expected", "unexpected"}

\* the outcome of a finished parse
SingleOutcome ==
    /\ pc = "returned" =>
          /\ stderr = None
          /\ tokens = <<>> /\ current = None
          /\ FirstViolation = 0 /\ Open(KindsListed, <<>>) = <<>>
    /\ pc = "exited" =>
          /\ ParserDiagnostic
          /\ IF FirstViolation > 0
             THEN /\ FoundKind(stderr) = listed[FirstViolation].kind
                  /\ stderr.at = listed[FirstViolation].pos
             ELSE /\ Open(KindsListed, <<>>) # <<>>
                  /\ FoundKind(stderr) = "nothing"
    /\ pc = "program" => stderr = None

\* C16: a parse ends either with the Program returned after the last token was
\* consumed, or with one diagnostic raised at the first token, or the end of the
\* list, that violates the grammar; after either nothing more happens
C16_FailFast ==
    /\ [](pc \in {"program", "returned", "exited"} => SingleOutcome)
    /\ [][~Finished]_vars

\* the same of the token lists that hold no ELIF
C16_ExceptElif ==
    /\ []((/\ pc \in {"program", "returned", "exited"}
            /\ \A j \in 1..Len(listed) : listed[j].kind # "ELIF") => SingleOutcome)
    /\ [][~Finished]_vars

(***************************************************************************)
(* C17.  A run from program load: the module body is executed, the builtin *)
(* table of lines 368-381 is built, and main is called (lines 405-406).    *)
(***************************************************************************)
GenericCall(args) == [class |-> "call", callee |-> "Generic", args |-> args]

\* the dict display of lines 368-381 as it is written: the operands of each
\* Signature(...) in source order, a member of DT or a call of Generic
BUILTINS_display ==
    << [word |-> "+", consume |-> <<DT("INT"), DT("INT")>>, produce |-> <<DT("INT")>>],
       [word |-> "-", consume |-> <<DT("INT"), DT("INT")>>, produce |-> <<DT("INT")>>],
       [word |-> "*", consume |-> <<DT("INT"), DT("INT")>>, produce |-> <<DT("INT")>>],
       [word |-> "=", consume |-> <<DT("INT"), DT("INT")>>, produce |-> <<DT("BOOL")>>],
       [word |-> ">", consume |-> <<DT("INT"), DT("INT")>>, produce |-> <<DT("BOOL")>>],
       [word |-> "<", consume |-> <<DT("INT"), DT("INT")>>, produce |-> <<DT("BOOL")>>],
       [word |-> "println", consume |-> <<GenericCall(<<"T">>)>>, produce |-> <<>>],
       [word |-> "drop", consume |-> <<GenericCall(<<"T">>)>>, produce |-> <<>>],
       [word |-> "dup", consume |-> <<GenericCall(<<"T">>), GenericCall(<<"T">>)>>,
        produce |-> <<GenericCall(<<"T">>)>>] >>

\* the exception of the first operand whose evaluation raises, None when none does
RECURSIVE FirstRaised(_)
FirstRaised(operands) ==
    IF operands = <<>> THEN None
    ELSE IF Head(operands).class = "call" THEN Generic__init__(Head(operands).args)
    ELSE FirstRaised(Tail(operands))

\* executing the module body up to the call of main
ModuleBody ==
    FirstRaised(Flatten([i \in 1..Len(BUILTINS_display) |->
                            BUILTINS_display[i].consume \o BUILTINS_display[i].produce]))

\* `python yezu.py <file>` on a readable file, before anything is executed
InitRun ==
    /\ string \in MainSources
    /\ ScannerInit
    /\ NoParser
    /\ given = [form |-> "run"]
    /\ pc = "load"

\* the module is loaded: an exception of the module body is uncaught, its traceback
\* is printed and the run is over; else main is entered
module_load ==
    /\ pc = "load"
    /\ IF ModuleBody # None
       THEN stderr' = Traceback(ModuleBody) /\ pc' = "raised"
       ELSE pc' = "list" /\ UNCHANGED stderr
    /\ UNCHANGED <<string, index, line, row, scanned, listed, exhausted,
                   tokens, current, prog, tokenized, functions, given>>

NextRun == module_load

SpecRun == InitRun /\ [][NextRun]_vars

\* C17: a run on a readable file, from program load on, ends by printing the Program
\* or through a diagnostic of report; it never ends in an uncaught exception
C17_DefinedOutcome ==
    given.form = "run" =>
        /\ pc # "raised"
        /\ stderr # None => stderr.report \in {"expected", "unexpected", "illegal word(s)"}

(***************************************************************************)
(* C18.  The symbol table of a Checker.                                    *)
(***************************************************************************)
\* the table the Checker was constructed with, empty when none was supplied
Supplied == IF given.functions = None THEN <<>> ELSE given.functions.dict

\* C18: however a Checker is constructed, its table maps every builtin word to its
\* builtin Signature, and the signatures supplied under other words are in it too
C18_BuiltinsAlwaysPresent ==
    (given.form = "Checker" /\ pc = "constructed") =>
        /\ \A w \in DOMAIN BUILTINS :
              w \in DOMAIN functions /\ functions[w] = BUILTINS[w]
        /\ \A w \in (DOMAIN Supplied) \ (DOMAIN BUILTINS) :
              w \in DOMAIN functions /\ functions[w] = Supplied[w]

====
